---- MODULE Spec2Model ----
(***************************************************************************)
(* Bridge-transaction lifecycle of agglayer-bridge-test.js.                *)
(*                                                                         *)
(* The source file holds two copies of the script.  Copy 1 (lines 1-675)   *)
(* routes through the Core API with a Native Bridge fallback and records   *)
(* SKIPPED scenarios; copy 2 (lines 677-1376) resolves wrapped tokens at   *)
(* start-up, has no fallback and executes the transfer inline.  The        *)
(* variable `copy` selects which script is running.                        *)
(*                                                                         *)
(* Every awaited call on an external collaborator (Router, Bridge, Chain   *)
(* Client) is one action whose outcome is chosen by the environment.       *)
(*                                                                         *)
(* Spec is the run of the script.  ClaimSpec is the Claim Tracker of       *)
(* section 4.5 of the specification, for which src/ holds no code.         *)
(***************************************************************************)
EXTENDS Integers, Sequences, FiniteSets, TLC

\* ------------------------------------------------------------------ bounds
\* number of leading entries of testScenarios a modelled run iterates over
MaxScenarios == 6
\* number of collaborator answers in one run that depart from the nominal run
\* (a call that throws, an empty route list, an insufficient balance, a
\* transaction object other than the plain { to, data, value }, a wrapped-token
\* look-up that finds a token, a route that names its own approval address,
\* a report file that cannot be written)
MaxFaults == 2

\* --------------------------------------------------------------- addresses
NULL == "null"
ZERO == "0x0000"
ADDR == "0xToken"
WRAPPED == "0xWrapped"
BRIDGE == "0x2a3D"
NoErr == "none"
NONE == "undefined"

Min(a, b) == IF a < b THEN a ELSE b

\* a JavaScript truthiness test on an address-or-null value
Truthy(a) == a # NULL /\ a # NONE

\* faulty variant: the `|| AddressZero` default is missing
NoDefault(a) == a

\* `x || ethers.constants.AddressZero`
OrZero(a) == IF Truthy(a) THEN a ELSE ZERO

\* ------------------------------------------------------------ configuration
ChainNames == {"ethereum", "base", "katana", "okx"}
Symbols == {"ETH", "WBTC", "OKB", "CUSTOM_ERC20"}

\* CHAINS[chain].bridgeAddress of each copy
bridgeAddress(c, chain) ==
  IF c = 1 /\ chain = "base" THEN NULL ELSE BRIDGE

\* CHAINS[chain].networkId of each copy
networkId(c, chain) ==
  CASE chain = "ethereum" -> 0
    [] chain = "base" -> 10
    [] chain = "katana" -> IF c = 1 THEN 20 ELSE 8
    [] OTHER -> 2

Desc(a, n) == [present |-> TRUE, address |-> a, isNative |-> n]
NoDesc == [present |-> FALSE, address |-> NONE, isNative |-> FALSE]

\* the TOKENS table at load time; custom is process.env.CUSTOM_TOKEN_KATANA || null
TOKENS(c, custom) ==
  [sym \in Symbols |-> [ch \in ChainNames |->
    CASE sym = "ETH" ->
           IF ch = "okx" /\ c = 1 THEN Desc(ADDR, FALSE) ELSE Desc(ZERO, TRUE)
      [] sym = "WBTC" ->
           IF ch = "katana" THEN Desc(NULL, FALSE)
           ELSE IF ch = "okx" /\ c = 2 THEN Desc(NULL, FALSE)
           ELSE Desc(ADDR, FALSE)
      [] sym = "OKB" ->
           IF ch = "katana" THEN Desc(NULL, FALSE)
           ELSE IF ch = "okx" THEN (IF c = 1 THEN Desc(ZERO, TRUE) ELSE Desc(ADDR, FALSE))
           ELSE IF ch = "ethereum" /\ c = 1 THEN Desc(ADDR, FALSE)
           ELSE NoDesc
      [] OTHER ->
           IF ch = "katana" THEN Desc(custom, FALSE)
           ELSE IF ch \in {"base", "ethereum"} THEN Desc(NULL, FALSE)
           ELSE NoDesc]]

Sc(f, t, tok) == [from |-> f, to |-> t, token |-> tok]

\* the ordered scenario list of runAllTests (identical in both copies)
testScenarios ==
  << Sc("base", "katana", "ETH"), Sc("katana", "base", "ETH"),
     Sc("base", "katana", "WBTC"), Sc("katana", "base", "WBTC"),
     Sc("base", "katana", "CUSTOM_ERC20"), Sc("katana", "base", "CUSTOM_ERC20"),
     Sc("katana", "okx", "ETH"), Sc("okx", "katana", "ETH"),
     Sc("katana", "okx", "OKB"), Sc("okx", "katana", "OKB"),
     Sc("katana", "okx", "WBTC"), Sc("okx", "katana", "WBTC"),
     Sc("katana", "ethereum", "ETH"), Sc("ethereum", "katana", "ETH"),
     Sc("katana", "ethereum", "WBTC"), Sc("ethereum", "katana", "WBTC"),
     Sc("katana", "ethereum", "CUSTOM_ERC20"), Sc("ethereum", "katana", "CUSTOM_ERC20") >>

\* the part of the list a modelled run iterates over
NumScenarios == Min(MaxScenarios, Len(testScenarios))

\* --------------------------------------------------------- unsigned transfers
\* a transaction object: presence of `to` and `data`, the numbers under the
\* keys gasLimit and gas (0 = key absent), and the nonce: absent, a decimal
\* string such as "5", or a 0x-prefixed hex string
Tx(t, d, gl, g, n) == [to |-> t, data |-> d, gasLimit |-> gl, gas |-> g, nonce |-> n]
NoTx == [to |-> FALSE, data |-> FALSE, gasLimit |-> -1, gas |-> -1, nonce |-> "absent"]

\* shapes in which a backend returns the unsigned transfer
TxShapes ==
  { Tx(TRUE, TRUE, 0, 0, "absent"), Tx(TRUE, TRUE, 100000, 0, "hex"),
    Tx(TRUE, TRUE, 0, 46247, "hex"), Tx(TRUE, TRUE, 0, 0, "dec"),
    Tx(TRUE, FALSE, 0, 0, "absent"), Tx(FALSE, TRUE, 0, 0, "absent") }

\* shapes in which erc20.buildApprove returns the approve transaction
ApproveShapes ==
  { Tx(TRUE, TRUE, 0, 0, "absent"), Tx(TRUE, TRUE, 0, 46247, "hex"),
    Tx(TRUE, TRUE, 0, 0, "dec") }

\* the shape the nominal run receives; any other shape uses up one of MaxFaults
PlainTx == Tx(TRUE, TRUE, 0, 0, "absent")

\* ------------------------------------------------------------------- state
VARIABLES
  copy,              \* which script is running (1 or 2)
  dryRun,            \* TEST_CONFIG.dryRun
  skipBalanceCheck,  \* process.env.SKIP_BALANCE_CHECK === 'true' (read by copy 1 only)
  tokens,            \* the TOKENS table (mutated by resolveWrappedTokens)
  pc,                \* position of the single thread of control
  i,                 \* loop index of runAllTests, 1-based
  testResults,       \* this.testResults
  bridgeMethod,      \* local of testBridgeScenario
  unsignedTx,        \* local of testBridgeScenario
  err,               \* message of the error being thrown / last caught
  ret,               \* caller of the running approveToken: "primary" / "fallback"
  result,            \* value returned by executeTransaction
  gasMultiplier,     \* Math.floor(TEST_CONFIG.gasMultiplier * 100)
  gasLimit,          \* local of executeTransaction (0 = not assigned / falsy)
  approveTx,         \* local of approveToken
  txRequest,         \* the object handed to the signer by the pending sendTransaction
  faults,            \* collaborator answers so far that depart from the nominal run
  calls,             \* calls made on the collaborators by the current scenario
  claims,            \* the list processClaims was invoked with
  pendingClaims,     \* the pending set of the Claim Tracker
  ci,                \* index in claims of the claim being processed
  claimResults,      \* outcome recorded per claim
  claimCalls,        \* calls made on the collaborators for claims
  cpc,               \* position of the Claim Tracker
  report             \* the summary computed by generateReport

vars == << copy, dryRun, skipBalanceCheck, tokens, pc, i, testResults,
           bridgeMethod, unsignedTx, err, ret, result, gasMultiplier, gasLimit,
           approveTx, txRequest, faults, calls,
           claims, pendingClaims, ci, claimResults, claimCalls, cpc, report >>

config == << copy, dryRun, skipBalanceCheck, gasMultiplier >>
exec == << gasLimit, approveTx, txRequest >>
tracker == << claims, pendingClaims, ci, claimResults, claimCalls, cpc >>
locals == << bridgeMethod, unsignedTx, err, ret, result, exec >>

\* one call on a collaborator: operation, the address argument that matters, outcome
Call(op, arg, res) == [op |-> op, arg |-> arg, res |-> res]

scenario == testScenarios[i]
fromDesc == tokens[scenario.token][scenario.from]
toDesc == tokens[scenario.token][scenario.to]
fromTokenAddress == OrZero(fromDesc.address)
toTokenAddress == OrZero(toDesc.address)

\* the answers of the nominal run; any other answer uses up one of MaxFaults.
\* getAllowance answers "sufficient" for the allowance already granted on chain
\* and "insufficient" otherwise: both are nominal
Nominal == {"ok", "routes", "sufficient"}
NominalAt(p) == IF p = "allowance" THEN Nominal \cup {"insufficient"} ELSE Nominal

\* the environment gives answer `out` to the call made at the current position
Answer(out) ==
  /\ out \notin NominalAt(pc) => faults < MaxFaults
  /\ faults' = IF out \in NominalAt(pc) THEN faults ELSE faults + 1

\* a transaction object with both `to` and `data`
WellFormed(tx) == tx.to /\ tx.data

\* how a returned transaction object counts against MaxFaults
ShapeAnswer(tx) ==
  IF tx = PlainTx THEN "ok" ELSE IF WellFormed(tx) THEN "shape" ELSE "malformed"

NoResult ==
  [hash |-> NONE, mock |-> FALSE, confirmed |-> FALSE,
   blockNumber |-> NONE, gasUsed |-> NONE]

\* no report has been computed yet
NoReport == [total |-> -1, successful |-> -1, failed |-> -1, skipped |-> -1]

\* values of Math.floor(gasMultiplier * 100): GAS_MULTIPLIER unset (1.2) or 1.5
DefaultMultiplier == 120
Multipliers == {DefaultMultiplier, 150}

\* the configurations a run starts from; SKIP_BALANCE_CHECK, which copy 2
\* never reads, is combined there with the dry run and the default multiplier
\* only; f is the number of faults already counted
Start(f) ==
  /\ copy \in {1, 2}
  /\ dryRun \in BOOLEAN
  /\ skipBalanceCheck \in BOOLEAN
  /\ \E custom \in {NULL, ADDR} : tokens = TOKENS(copy, custom)
  /\ pc = "init"
  /\ i = 1
  /\ testResults = << >>
  /\ bridgeMethod = NULL
  /\ unsignedTx = NoTx
  /\ err = NoErr
  /\ ret = NONE
  /\ result = NoResult
  /\ gasMultiplier \in Multipliers
  /\ copy = 2 /\ skipBalanceCheck => dryRun /\ gasMultiplier = DefaultMultiplier
  /\ gasLimit = 0
  /\ approveTx = NoTx
  /\ txRequest = NoTx
  /\ faults = f
  /\ calls = << >>
  /\ claims = << >>
  /\ pendingClaims = << >>
  /\ ci = 1
  /\ claimResults = << >>
  /\ claimCalls = << >>
  /\ cpc = "idle"
  /\ report = NoReport

Init == Start(0)

\* --------------------------------------------------------------- initialize
\* initialize(): validateEnvironment, wallet/provider set-up and SDK
\* construction either all succeed or throw into main's catch (exit code 1)
initialize ==
  /\ pc = "init"
  /\ \E ok \in BOOLEAN :
       IF ok
       THEN pc' = (IF copy = 2 THEN "resolve1" ELSE "loop") /\ err' = err
       ELSE pc' = "exit1" /\ err' = "init"
  /\ UNCHANGED << config, tracker, report, tokens, i, testResults, bridgeMethod, unsignedTx,
                  ret, result, exec, faults, calls >>

\* the five look-ups of resolveWrappedTokens, in order
ResolveSteps ==
  << [sym |-> "WBTC", origin |-> "ethereum", dest |-> "katana"],
     [sym |-> "WBTC", origin |-> "ethereum", dest |-> "okx"],
     [sym |-> "OKB", origin |-> "okx", dest |-> "katana"],
     [sym |-> "CUSTOM_ERC20", origin |-> "katana", dest |-> "base"],
     [sym |-> "CUSTOM_ERC20", origin |-> "katana", dest |-> "ethereum"] >>

ResolvePc(k) == CASE k = 1 -> "resolve1" [] k = 2 -> "resolve2" [] k = 3 -> "resolve3"
                  [] k = 4 -> "resolve4" [] k = 5 -> "resolve5" [] OTHER -> "loop"

\* the values bridge.getWrappedTokenAddress can hand back; null also stands for
\* the error that getWrappedTokenAddress catches and turns into null
WrappedAnswers == {NULL, ZERO, WRAPPED}

\* the guard of one look-up of resolveWrappedTokens
ResolveGuard(t, st) ==
  /\ t[st.sym][st.dest].address = NULL
  /\ st.sym = "CUSTOM_ERC20" => Truthy(t[st.sym][st.origin].address)

\* faulty variant: a zero-address answer also marks the descriptor native
ResolveStoreNative(t, st, a) ==
  IF Truthy(a)
  THEN [t EXCEPT ![st.sym][st.dest].address = a,
                 ![st.sym][st.dest].isNative = (a = ZERO)]
  ELSE t

\* the table after one look-up answered a: `if (wrapped) TOKENS.X.y.address = wrapped`
ResolveStore(t, st, a) ==
  IF Truthy(a)
  THEN [t EXCEPT ![st.sym][st.dest].address = a]
  ELSE t

\* one look-up of resolveWrappedTokens (copy 2)
resolveWrappedTokens(k) ==
  /\ pc = ResolvePc(k)
  /\ LET st == ResolveSteps[k] IN
       IF ResolveGuard(tokens, st)
       THEN \E a \in WrappedAnswers :
              /\ Truthy(a) => faults < MaxFaults
              /\ tokens' = ResolveStore(tokens, st, a)
              /\ faults' = IF Truthy(a) THEN faults + 1 ELSE faults
       ELSE UNCHANGED << tokens, faults >>
  /\ pc' = ResolvePc(k + 1)
  /\ UNCHANGED << config, tracker, report, i, testResults, locals, calls >>

\* ------------------------------------------------------------- runAllTests
Rec(s, status, method, txHash, error, reason) ==
  [fromChain |-> s.from, toChain |-> s.to, token |-> s.token, status |-> status,
   method |-> method, txHash |-> txHash, error |-> error, reason |-> reason,
   blockNumber |-> NONE, gasUsed |-> NONE]

\* `scenario.token === 'CUSTOM_ERC20' && !TOKENS.CUSTOM_ERC20.katana.address`
SkipTest(t, s) ==
  s.token = "CUSTOM_ERC20" /\ ~Truthy(t["CUSTOM_ERC20"]["katana"].address)

\* what the skip branch appends: copy 1 pushes a SKIPPED record, copy 2 only logs
SkipRecord(c, s) ==
  IF c = 1
  THEN << Rec(s, "SKIPPED", NONE, NONE, NoErr, "Token not deployed") >>
  ELSE << >>

\* faulty variant: the loop condition never lets runAllTests return
LoopNeverDone(k, n) == FALSE

\* the loop condition `i < testScenarios.length` has become false, k being
\* the 1-based loop index and n the length of the list
LoopDone(k, n) == k > n

\* loop exit: all scenarios iterated, runAllTests returns
runAllTests_return ==
  /\ pc = "loop"
  /\ LoopDone(i, NumScenarios)
  /\ pc' = "report"
  /\ UNCHANGED << config, tracker, report, tokens, i, testResults, locals, faults, calls >>

\* skip branch of the loop body (`continue`)
skipScenario ==
  /\ pc = "loop"
  /\ i <= NumScenarios
  /\ SkipTest(tokens, scenario)
  /\ testResults' = testResults \o SkipRecord(copy, scenario)
  /\ i' = i + 1
  /\ calls' = << >>
  /\ bridgeMethod' = NULL /\ unsignedTx' = NoTx /\ err' = NoErr
  /\ ret' = NONE /\ result' = NoResult
  /\ gasLimit' = 0 /\ approveTx' = NoTx /\ txRequest' = NoTx
  /\ UNCHANGED << config, tracker, report, tokens, pc, faults >>

\* the loop body calls testBridgeScenario
startScenario ==
  /\ pc = "loop"
  /\ i <= NumScenarios
  /\ ~SkipTest(tokens, scenario)
  /\ pc' = "precheck"
  /\ calls' = << >>
  /\ bridgeMethod' = NULL /\ unsignedTx' = NoTx /\ err' = NoErr
  /\ ret' = NONE /\ result' = NoResult
  /\ gasLimit' = 0 /\ approveTx' = NoTx /\ txRequest' = NoTx
  /\ UNCHANGED << config, tracker, report, tokens, i, testResults, faults >>

\* faulty variant: the delay also follows the last scenario
DelayAlways(k, n) == TRUE

\* `if (i < testScenarios.length - 1)`, k being the 1-based index of the
\* scenario that has just returned and n the length of the list
DelayNeeded(k, n) == k < n

\* testBridgeScenario has returned: the rate-limiting test; without a delay
\* the loop goes on to i++
pacing ==
  /\ pc = "pacing"
  /\ IF DelayNeeded(i, NumScenarios)
     THEN pc' = "delay" /\ i' = i
     ELSE pc' = "loop" /\ i' = i + 1
  /\ UNCHANGED << config, tracker, report, tokens, testResults, locals, faults, calls >>

\* `await new Promise(resolve => setTimeout(resolve, 3000))`, then i++
delay ==
  /\ pc = "delay"
  /\ pc' = "loop"
  /\ i' = i + 1
  /\ UNCHANGED << config, tracker, report, tokens, testResults, locals, faults, calls >>

\* faulty variant: only the exact status SUCCESS counts as successful
IsExactlySuccess(status) == status = "SUCCESS"

\* `r.status.includes('SUCCESS')`
IncludesSuccess(status) == status \in {"SUCCESS", "SUCCESS (DRY RUN)"}

\* the summary generateReport computes from this.testResults: total,
\* successful, failed and skipped
Summary(results) ==
  [total |-> Len(results),
   successful |->
     Cardinality({ k \in DOMAIN results : IncludesSuccess(results[k].status) }),
   failed |-> Cardinality({ k \in DOMAIN results : results[k].status = "FAILED" }),
   skipped |-> Cardinality({ k \in DOMAIN results : results[k].status = "SKIPPED" })]

\* faulty variant: an error of generateReport is swallowed
ReportCatchSwallow == "exit0"

\* where an error thrown by generateReport lands: main's catch block,
\* `process.exit(1)`
ReportCatch == "exit1"

\* generateReport after runAllTests: the summary is printed and the results
\* file written (fs.mkdirSync / fs.writeFileSync can throw); main then
\* returns and the process ends with code 0
generateReport ==
  /\ pc = "report"
  /\ \E out \in {"ok", "throw"} :
       /\ Answer(out)
       /\ IF out = "ok"
          THEN pc' = "exit0" /\ err' = err
          ELSE pc' = ReportCatch /\ err' = "report"
  /\ report' = Summary(testResults)
  /\ UNCHANGED << config, tracker, tokens, i, testResults, bridgeMethod, unsignedTx,
                  ret, result, exec, calls >>

\* ------------------------------------------------------ testBridgeScenario
\* faulty variant: the unresolved-address test is missing
ValidateTokenNoNullTest(t, s) ==
  IF ~t[s.token][s.from].present \/ ~t[s.token][s.to].present
  THEN "Token not configured"
  ELSE NoErr

\* the token validation at the top of the try block: the message it throws, or NoErr
ValidateToken(t, s) ==
  IF ~t[s.token][s.from].present \/ ~t[s.token][s.to].present
  THEN "Token not configured"
  ELSE IF ~t[s.token][s.from].isNative /\ t[s.token][s.from].address = NULL
  THEN "Token address not resolved"
  ELSE NoErr

\* `!token[fromChain].isNative && fromTokenAddress !== ethers.constants.AddressZero`
NeedsApproval(d, a) == ~d.isNative /\ a # ZERO

\* where an error thrown inside the primary attempt lands: copy 1 wraps the
\* primary attempt in an inner try whose catch starts the Native Bridge
\* fallback; copy 2 has only the scenario's outer catch
PrimaryCatch(c) == IF c = 1 THEN "fallback" ELSE "catch"

\* faulty variant: the fallback path swallows approveToken's error
ApproveCatchSwallow(c, r) == IF r = "primary" THEN PrimaryCatch(c) ELSE "bridgeAsset"

\* where approveToken's rethrown error lands, by call site r
ApproveCatch(c, r) == IF r = "primary" THEN PrimaryCatch(c) ELSE "catch"

\* the statement after a returned approveToken, by call site r
AfterApprove(r) == IF r = "primary" THEN "build" ELSE "bridgeAsset"

\* faulty variant: approveToken ignores TEST_CONFIG.dryRun
DryRunIgnored(c, dry) == FALSE

\* does approveToken return at its dry-run test before buildApprove (copy 1
\* tests dryRun before building the approve transaction)
DryRunBeforeBuild(c, dry) == c = 1 /\ dry

\* does approveToken return at its dry-run test after buildApprove (copy 2)
DryRunAfterBuild(c, dry) == c = 2 /\ dry

\* faulty variant: the `allowanceBN.gte(amount)` early return is missing
AllowanceNoShortCircuit(c, dry, r, out) ==
  IF DryRunBeforeBuild(c, dry) THEN AfterApprove(r) ELSE "buildApprove"

\* approveToken after the allowance came back: `if (allowanceBN.gte(amount)) return`,
\* then copy 1's dry-run return, else on to buildApprove
AllowanceNext(c, dry, r, out) ==
  IF out = "sufficient" THEN AfterApprove(r)
  ELSE IF DryRunBeforeBuild(c, dry) THEN AfterApprove(r)
  ELSE "buildApprove"

validateToken ==
  /\ pc = "precheck"
  /\ LET e == ValidateToken(tokens, scenario) IN
       IF e # NoErr
       THEN pc' = "catch" /\ err' = e
       ELSE pc' = "balance" /\ err' = err
  /\ UNCHANGED << config, tracker, report, tokens, i, testResults, bridgeMethod, unsignedTx,
                  ret, result, exec, faults, calls >>

\* Step 1, checkBalance: its own try/catch turns a failed query into `false`
checkBalance ==
  /\ pc = "balance"
  /\ IF copy = 1 /\ skipBalanceCheck
     THEN pc' = "routes" /\ UNCHANGED << err, calls, faults >>
     ELSE \E out \in {"sufficient", "insufficient", "throw"} :
            /\ Answer(out)
            /\ calls' = Append(calls, Call("getBalance", fromDesc.address, out))
            /\ IF out = "sufficient"
               THEN pc' = "routes" /\ err' = err
               ELSE pc' = "catch" /\ err' = "Insufficient balance"
  /\ UNCHANGED << config, tracker, report, tokens, i, testResults, bridgeMethod, unsignedTx,
                  ret, result, exec >>

\* what core.getRoutes can answer: a route list whose first route names no
\* approval address, one whose first route names one, an empty list, an error
RouteAnswers == {"routes", "routesApproval", "empty", "throw"}

\* `!(!routes || routes.length === 0)`
RoutesFound(out) == out \in {"routes", "routesApproval"}

\* the spender handed to approveToken on the primary path, `out` being the
\* answer of getRoutes: fromChainConfig.bridgeAddress, whatever the route holds
Spender(c, chain, out) == bridgeAddress(c, chain)

\* Step 2, core.getRoutes and the empty-list test; on success Step 3 decides
\* whether approveToken is called
getRoutes ==
  /\ pc = "routes"
  /\ \E out \in RouteAnswers :
       /\ Answer(out)
       /\ IF RoutesFound(out)
          THEN /\ bridgeMethod' = (IF copy = 1 THEN "Core API" ELSE bridgeMethod)
               /\ err' = err
               /\ IF NeedsApproval(fromDesc, fromTokenAddress)
                  THEN /\ pc' = "allowance"
                       /\ ret' = "primary"
                       /\ calls' = calls \o
                            << Call("getRoutes", toTokenAddress, out),
                               Call("approveToken", Spender(copy, scenario.from, out), "primary") >>
                  ELSE /\ pc' = "build"
                       /\ ret' = ret
                       /\ calls' = Append(calls, Call("getRoutes", toTokenAddress, out))
          ELSE /\ pc' = PrimaryCatch(copy)
               /\ err' = (IF copy = 1 THEN err
                          ELSE IF out = "empty" THEN "No routes available"
                          ELSE "getRoutes failed")
               /\ calls' = Append(calls, Call("getRoutes", toTokenAddress, out))
               /\ UNCHANGED << bridgeMethod, ret >>
  /\ UNCHANGED << config, tracker, report, tokens, i, testResults, unsignedTx, exec, result >>

\* the inner catch of copy 1: switch to the Native Bridge module, Step 3 again
fallback ==
  /\ pc = "fallback"
  /\ bridgeMethod' = "Native Bridge"
  /\ IF NeedsApproval(fromDesc, fromTokenAddress)
     THEN /\ pc' = "allowance"
          /\ ret' = "fallback"
          /\ calls' = Append(calls,
               Call("approveToken", bridgeAddress(copy, scenario.from), "fallback"))
     ELSE /\ pc' = "bridgeAsset"
          /\ UNCHANGED << ret, calls >>
  /\ UNCHANGED << config, tracker, report, tokens, i, testResults, unsignedTx, exec, err, result, faults >>

\* approveToken: erc20.getAllowance and the `allowanceBN.gte(amount)` test
getAllowance ==
  /\ pc = "allowance"
  /\ \E out \in {"sufficient", "insufficient", "throw"} :
       /\ Answer(out)
       /\ calls' = Append(calls,
            Call("getAllowance", bridgeAddress(copy, scenario.from), out))
       /\ CASE out \in {"sufficient", "insufficient"} ->
                 /\ pc' = AllowanceNext(copy, dryRun, ret, out)
                 /\ err' = err
            [] OTHER ->
                 /\ pc' = ApproveCatch(copy, ret)
                 /\ err' = (IF ApproveCatch(copy, ret) = "catch"
                            THEN "getAllowance failed" ELSE err)
  /\ UNCHANGED << config, tracker, report, tokens, i, testResults, bridgeMethod, unsignedTx,
                  ret, result, exec >>

\* approveToken: erc20.buildApprove
buildApprove ==
  /\ pc = "buildApprove"
  /\ \/ \E tx \in ApproveShapes :
          /\ Answer(ShapeAnswer(tx))
          /\ calls' = Append(calls,
               Call("buildApprove", bridgeAddress(copy, scenario.from), "ok"))
          /\ IF DryRunAfterBuild(copy, dryRun)
             THEN pc' = AfterApprove(ret) /\ approveTx' = NoTx
             ELSE pc' = "sendApprove" /\ approveTx' = tx
          /\ err' = err
     \/ /\ Answer("throw")
        /\ calls' = Append(calls,
             Call("buildApprove", bridgeAddress(copy, scenario.from), "throw"))
        /\ pc' = ApproveCatch(copy, ret)
        /\ err' = (IF ApproveCatch(copy, ret) = "catch"
                   THEN "buildApprove failed" ELSE err)
        /\ approveTx' = approveTx
  /\ UNCHANGED << config, tracker, report, tokens, i, testResults, bridgeMethod, unsignedTx,
                  ret, result, gasLimit, txRequest >>

\* faulty variant: approveToken returns without awaiting the confirmation
ApproveSentNoWait(r) == AfterApprove(r)

\* the statement after sendTransaction(approveTx) has returned a response:
\* `await txResponse.wait()`, whatever the call site r
ApproveSent(r) == "waitApprove"

\* the object approveToken hands to the signer: approveTx as buildApprove
\* returned it
ApproveRequest(tx) == tx

\* approveToken: sendTransaction(approveTx)
sendApprove ==
  /\ pc = "sendApprove"
  /\ txRequest' = ApproveRequest(approveTx)
  /\ \E out \in {"ok", "throw"} :
       /\ Answer(out)
       /\ calls' = Append(calls, Call("sendTransaction", "approve", out))
       /\ IF out = "ok"
          THEN pc' = ApproveSent(ret) /\ err' = err /\ approveTx' = approveTx
          ELSE /\ pc' = ApproveCatch(copy, ret)
               /\ err' = (IF ApproveCatch(copy, ret) = "catch"
                          THEN "approve submission failed" ELSE err)
               /\ approveTx' = NoTx
  /\ UNCHANGED << config, tracker, report, tokens, i, testResults, bridgeMethod, unsignedTx,
                  ret, result, gasLimit >>

\* approveToken: txResponse.wait(); approveToken's locals go out of scope
waitApprove ==
  /\ pc = "waitApprove"
  /\ approveTx' = NoTx
  /\ txRequest' = NoTx
  /\ \E out \in {"ok", "throw"} :
       /\ Answer(out)
       /\ calls' = Append(calls, Call("wait", "approve", out))
       /\ IF out = "ok"
          THEN pc' = AfterApprove(ret) /\ err' = err
          ELSE /\ pc' = ApproveCatch(copy, ret)
               /\ err' = (IF ApproveCatch(copy, ret) = "catch"
                          THEN "approve confirmation failed" ELSE err)
  /\ UNCHANGED << config, tracker, report, tokens, i, testResults, bridgeMethod, unsignedTx,
                  ret, result, gasLimit >>

\* Step 4 on the primary path: core.getUnsignedTransaction(bestRoute)
getUnsignedTransaction ==
  /\ pc = "build"
  /\ \/ \E tx \in TxShapes :
          /\ Answer(ShapeAnswer(tx))
          /\ unsignedTx' = tx
          /\ calls' = Append(calls, Call("getUnsignedTransaction", NONE, "ok"))
          /\ pc' = "log"
          /\ err' = err
     \/ /\ Answer("throw")
        /\ calls' = Append(calls, Call("getUnsignedTransaction", NONE, "throw"))
        /\ pc' = PrimaryCatch(copy)
        /\ err' = (IF PrimaryCatch(copy) = "catch"
                   THEN "getUnsignedTransaction failed" ELSE err)
        /\ unsignedTx' = unsignedTx
  /\ UNCHANGED << config, tracker, report, tokens, i, testResults, bridgeMethod, ret, result, exec >>

\* faulty variant: a failed fallback goes back to the primary backend
FallbackCatchRetry == "routes"

\* where an error thrown on the fallback path lands: the inner catch block is
\* not itself guarded, so the scenario's outer catch block
FallbackCatch == "catch"

\* Step 4 on the fallback path: native.bridge(bridgeAddress, chainId).buildBridgeAsset
buildBridgeAsset ==
  /\ pc = "bridgeAsset"
  /\ \/ \E tx \in TxShapes :
          /\ Answer(ShapeAnswer(tx))
          /\ unsignedTx' = tx
          /\ calls' = Append(calls,
               Call("buildBridgeAsset", bridgeAddress(copy, scenario.from), "ok"))
          /\ pc' = "log"
          /\ err' = err
     \/ /\ Answer("throw")
        /\ calls' = Append(calls,
             Call("buildBridgeAsset", bridgeAddress(copy, scenario.from), "throw"))
        /\ pc' = FallbackCatch
        /\ err' = "buildBridgeAsset failed"
        /\ unsignedTx' = unsignedTx
  /\ UNCHANGED << config, tracker, report, tokens, i, testResults, bridgeMethod, ret, result, exec >>

\* the three console.log lines on unsignedTx: `unsignedTx.data.substring(0, 66)`
\* throws a TypeError when the transaction carries no data
LogThrows(tx) == ~tx.data

logTransaction ==
  /\ pc = "log"
  /\ IF LogThrows(unsignedTx)
     THEN pc' = "catch" /\ err' = "TypeError"
     ELSE pc' = "execute" /\ err' = err
  /\ UNCHANGED << config, tracker, report, tokens, i, testResults, bridgeMethod, unsignedTx,
                  ret, result, exec, faults, calls >>

\* `{ hash: mockTxHash, mock: true }`
MockResult ==
  [hash |-> "mock", mock |-> TRUE, confirmed |-> FALSE,
   blockNumber |-> NONE, gasUsed |-> NONE]

\* `{ hash: txResponse.hash, blockNumber: receipt.blockNumber,
\*    gasUsed: receipt.gasUsed, mock: false }`
LiveResult ==
  [hash |-> "0xTX", mock |-> FALSE, confirmed |-> TRUE,
   blockNumber |-> "receipt.blockNumber", gasUsed |-> "receipt.gasUsed"]

\* does the live path ask the chain for a gas estimate (copy 1: when the
\* transaction carries no gasLimit; copy 2 defaults to 500000 without asking)
NeedsEstimate(c, tx) == c = 1 /\ tx.gasLimit = 0

\* the gas limit substituted when estimateGas fails (copy 1)
EstimateDefault == 800000

\* the gas limit substituted when the transaction carries none (copy 2)
InlineDefault == 500000

\* the estimate the chain returns for the transfer
Estimated == 55774

\* the gas limit before estimation: `let gasLimit = unsignedTx.gasLimit`
\* (copy 1), `unsignedTx.gasLimit || '500000'` (copy 2)
CarriedGas(c, tx) == IF c = 2 /\ tx.gasLimit = 0 THEN InlineDefault ELSE tx.gasLimit

\* faulty variant: a failed estimation leaves gasLimit unset
EstimateResultNoDefault(out) == IF out = "ok" THEN Estimated ELSE 0

\* gasLimit after the try/catch around estimateGas
EstimateResult(out) == IF out = "ok" THEN Estimated ELSE EstimateDefault

\* faulty variant: the multiplier is not applied
NoMultiplier(g, m) == g

\* `BigNumber.from(gasLimit).mul(Math.floor(gasMultiplier * 100)).div(100)`,
\* m being Math.floor(gasMultiplier * 100)
ApplyMultiplier(g, m) == (g * m) \div 100

\* the object literal handed to sendTransaction for the transfer:
\* { to, data, value, gasLimit }
TransferRequest(tx, g) ==
  [to |-> tx.to, data |-> tx.data, gasLimit |-> g, gas |-> 0, nonce |-> "absent"]

\* Step 5, head of executeTransaction (copy 2: the inline dry-run test)
executeTransaction ==
  /\ pc = "execute"
  /\ IF dryRun
     THEN pc' = "record" /\ result' = MockResult /\ gasLimit' = gasLimit
     ELSE /\ pc' = (IF NeedsEstimate(copy, unsignedTx) THEN "estimateGas" ELSE "send")
          /\ result' = result
          /\ gasLimit' = CarriedGas(copy, unsignedTx)
  /\ UNCHANGED << config, tracker, report, tokens, i, testResults, bridgeMethod, unsignedTx,
                  err, ret, approveTx, txRequest, faults, calls >>

\* where a failed gas estimation continues: its catch substitutes '800000'
EstimateCatch == "send"

\* connectedWallet.estimateGas inside its own try/catch
estimateGas ==
  /\ pc = "estimateGas"
  /\ \E out \in {"ok", "throw"} :
       /\ Answer(out)
       /\ calls' = Append(calls, Call("estimateGas", NONE, out))
       /\ pc' = (IF out = "ok" THEN "send" ELSE EstimateCatch)
       /\ gasLimit' = EstimateResult(out)
  /\ UNCHANGED << config, tracker, report, tokens, i, testResults, bridgeMethod, unsignedTx,
                  err, ret, result, approveTx, txRequest >>

\* faulty variant: a failed submission or wait is submitted again
ExecuteCatchRetry == "send"

\* faulty variant: the rejection is dropped and the loop moves on
ExecuteCatchDrop == "pacing"

\* faulty variant: a failed execution starts the Native Bridge fallback
ExecuteCatchFallback == "fallback"

\* where an error of the transfer's sendTransaction or wait lands: Step 5 is
\* outside the inner try, so the scenario's outer catch block
ExecuteCatch == "catch"

\* faulty variant: the result is returned without awaiting the confirmation
TransferSentNoWait == "record"

\* the statement after sendTransaction of the transfer has returned a
\* response: `await txResponse.wait()`
TransferSent == "wait"

\* the gas multiplier is applied, then sendTransaction of the transfer
sendTransaction ==
  /\ pc = "send"
  /\ gasLimit' = ApplyMultiplier(gasLimit, gasMultiplier)
  /\ txRequest' = TransferRequest(unsignedTx, gasLimit')
  /\ \E out \in {"ok", "throw"} :
       /\ Answer(out)
       /\ calls' = Append(calls, Call("sendTransaction", "transfer", out))
       /\ IF out = "ok"
          THEN pc' = TransferSent /\ err' = err
          ELSE pc' = ExecuteCatch /\ err' = "submission failed"
  /\ UNCHANGED << config, tracker, report, tokens, i, testResults, bridgeMethod, unsignedTx,
                  ret, result, approveTx >>

\* txResponse.wait() of the transfer
wait ==
  /\ pc = "wait"
  /\ \E out \in {"ok", "throw"} :
       /\ Answer(out)
       /\ calls' = Append(calls, Call("wait", "transfer", out))
       /\ IF out = "ok"
          THEN pc' = "record" /\ result' = LiveResult /\ err' = err
          ELSE pc' = ExecuteCatch /\ err' = "confirmation failed" /\ result' = result
  /\ UNCHANGED << config, tracker, report, tokens, i, testResults, bridgeMethod, unsignedTx,
                  ret, exec >>

\* the record pushed on success; copy 2's records carry no method field
SuccessRecord(c, s, m, r) ==
  [Rec(s, IF r.mock THEN "SUCCESS (DRY RUN)" ELSE "SUCCESS",
       IF c = 1 THEN m ELSE NONE, r.hash, NoErr, NONE)
     EXCEPT !.blockNumber = r.blockNumber, !.gasUsed = r.gasUsed]

\* this.testResults.push({... status: SUCCESS ...})
recordSuccess ==
  /\ pc = "record"
  /\ testResults' = Append(testResults, SuccessRecord(copy, scenario, bridgeMethod, result))
  /\ pc' = "pacing"
  /\ UNCHANGED << config, tracker, report, tokens, i, locals, faults, calls >>

\* faulty variant: the catch block rethrows and main exits with code 1
CatchRethrow == "exit1"

\* where the scenario's outer catch block leaves control: back in runAllTests
CatchResume == "pacing"

\* the outer catch of testBridgeScenario: log and push a FAILED record
catchScenario ==
  /\ pc = "catch"
  /\ testResults' = Append(testResults, Rec(scenario, "FAILED", NONE, NONE, err, NONE))
  /\ pc' = CatchResume
  /\ UNCHANGED << config, tracker, report, tokens, i, locals, faults, calls >>

\* ------------------------------------------------------------ Claim Tracker
\* The script under src/ holds no claim processing; this part follows section
\* 4.5 of the specification (processClaims and its startup-time variant
\* checkForExistingClaims, which feeds left-over claims of an earlier run
\* through processClaims before any scenario runs).

\* number of pending claims processClaims is invoked with, at most
MaxClaims == 3

DEP == "deposit"

\* a PendingClaim: source transaction hash and the deposit identifier, null
\* while the indexing backend has not ingested the source transaction
PendingClaim(h, dep) == [txHash |-> h, depositId |-> dep]

\* the lists of n pending claims, hashes 1..n
ClaimLists(n) ==
  { [k \in 1..n |-> PendingClaim(k, f[k])] : f \in [1..n -> {NULL, DEP}] }

ClaimRec(c, status, error) == [txHash |-> c.txHash, status |-> status, error |-> error]
ClaimCall(op, c, res) == [op |-> op, txHash |-> c.txHash, res |-> res]

\* the pending set without claim c
Remove(q, c) == SelectSeq(q, LAMBDA x : x.txHash # c.txHash)

\* faulty variant: a failed claim ends processClaims
ClaimFailedAbort(k, n, status) ==
  IF status = "FAILED" THEN "done" ELSE IF k < n THEN "resolve" ELSE "done"

\* where processing goes after the outcome of claim k of n was recorded: "log
\* and continue to the next claim regardless of outcome"
ClaimRecorded(k, n, status) == IF k < n THEN "resolve" ELSE "done"

\* the state after the outcome of the current claim is recorded
FinishClaim(status, error) ==
  /\ claimResults' = Append(claimResults, ClaimRec(claims[ci], status, error))
  /\ pendingClaims' = Remove(pendingClaims, claims[ci])
  /\ cpc' = ClaimRecorded(ci, Len(claims), status)
  /\ ci' = ci + 1

\* the state at start-up of a run that finds left-over claims
ClaimInit ==
  /\ copy = 1 /\ dryRun = FALSE /\ skipBalanceCheck = FALSE
  /\ gasMultiplier = DefaultMultiplier
  /\ tokens = TOKENS(1, NULL)
  /\ pc = "claims"
  /\ i = 1
  /\ testResults = << >>
  /\ bridgeMethod = NULL /\ unsignedTx = NoTx /\ err = NoErr
  /\ ret = NONE /\ result = NoResult
  /\ gasLimit = 0 /\ approveTx = NoTx /\ txRequest = NoTx
  /\ faults = 0
  /\ calls = << >>
  /\ \E n \in 0..MaxClaims : claims \in ClaimLists(n)
  /\ pendingClaims = claims
  /\ ci = 1
  /\ claimResults = << >>
  /\ claimCalls = << >>
  /\ cpc = "idle"
  /\ report = NoReport

scenarioVars ==
  << copy, dryRun, skipBalanceCheck, gasMultiplier, tokens, pc, i, testResults,
     bridgeMethod, unsignedTx, err, ret, result, gasLimit, approveTx, txRequest,
     faults, calls, report >>

\* processClaims(claims) is invoked
processClaims ==
  /\ cpc = "idle"
  /\ cpc' = (IF Len(claims) = 0 THEN "done" ELSE "resolve")
  /\ UNCHANGED << scenarioVars, claims, pendingClaims, ci, claimResults, claimCalls >>

\* step 1: a null deposit identifier is looked up again; still unresolved,
\* the claim fails with DepositNotIndexedError
resolveDeposit ==
  /\ cpc = "resolve"
  /\ IF claims[ci].depositId # NULL
     THEN /\ cpc' = "buildClaim"
          /\ UNCHANGED << pendingClaims, ci, claimResults, claimCalls >>
     ELSE \E out \in {"found", "missing", "throw"} :
            /\ claimCalls' = Append(claimCalls, ClaimCall("getTransactions", claims[ci], out))
            /\ IF out = "found"
               THEN cpc' = "buildClaim" /\ UNCHANGED << pendingClaims, ci, claimResults >>
               ELSE FinishClaim("FAILED",
                      IF out = "missing" THEN "DepositNotIndexedError"
                      ELSE "getTransactions failed")
  /\ UNCHANGED << scenarioVars, claims >>

\* steps 2 and 3: the Router builds the unsigned claim transaction, which is
\* then normalized; a transaction without `to` or `data` is malformed
buildClaim ==
  /\ cpc = "buildClaim"
  /\ \E out \in {"ok", "malformed", "throw"} :
       /\ claimCalls' = Append(claimCalls,
            ClaimCall("getClaimUnsignedTransaction", claims[ci], out))
       /\ IF out = "ok"
          THEN cpc' = "submitClaim" /\ UNCHANGED << pendingClaims, ci, claimResults >>
          ELSE FinishClaim("FAILED",
                 IF out = "malformed" THEN "MalformedTransactionError"
                 ELSE "getClaimUnsignedTransaction failed")
  /\ UNCHANGED << scenarioVars, claims >>

\* step 4, submission on the destination chain
submitClaim ==
  /\ cpc = "submitClaim"
  /\ \E out \in {"ok", "throw"} :
       /\ claimCalls' = Append(claimCalls, ClaimCall("sendTransaction", claims[ci], out))
       /\ IF out = "ok"
          THEN cpc' = "waitClaim" /\ UNCHANGED << pendingClaims, ci, claimResults >>
          ELSE FinishClaim("FAILED", "claim submission failed")
  /\ UNCHANGED << scenarioVars, claims >>

\* step 4, confirmation, and step 5: the outcome is recorded
waitClaim ==
  /\ cpc = "waitClaim"
  /\ \E out \in {"ok", "throw"} :
       /\ claimCalls' = Append(claimCalls, ClaimCall("wait", claims[ci], out))
       /\ IF out = "ok"
          THEN FinishClaim("SUCCESS", NoErr)
          ELSE FinishClaim("FAILED", "claim confirmation failed")
  /\ UNCHANGED << scenarioVars, claims >>

ClaimNext ==
  \/ processClaims
  \/ resolveDeposit
  \/ buildClaim
  \/ submitClaim
  \/ waitClaim

ClaimSpec == ClaimInit /\ [][ClaimNext]_vars

\* ------------------------------------------------------------ specification
Next ==
  \/ initialize
  \/ \E k \in 1..5 : resolveWrappedTokens(k)
  \/ runAllTests_return
  \/ skipScenario
  \/ startScenario
  \/ validateToken
  \/ checkBalance
  \/ getRoutes
  \/ fallback
  \/ getAllowance
  \/ buildApprove
  \/ sendApprove
  \/ waitApprove
  \/ getUnsignedTransaction
  \/ buildBridgeAsset
  \/ logTransaction
  \/ executeTransaction
  \/ estimateGas
  \/ sendTransaction
  \/ wait
  \/ recordSuccess
  \/ catchScenario
  \/ pacing
  \/ delay
  \/ generateReport

Spec == Init /\ [][Next]_vars

\* The run under the assumption that every awaited call eventually returns
\* or throws and that the single thread of control keeps running: whenever a
\* step of the script is possible, one is eventually taken
\* The fair runs are explored with one collaborator answer, at most, that
\* departs from the nominal run.
FairInit == Start(MaxFaults - 1)

FairSpec == FairInit /\ [][Next]_vars /\ WF_vars(Next)

TypeOK ==
  /\ copy \in {1, 2}
  /\ dryRun \in BOOLEAN
  /\ i \in 1..(NumScenarios + 1)
  /\ Len(testResults) <= NumScenarios

\* ------------------------------------------------------------------ claims
Last(q) == q[Len(q)]
ScenarioOf(r) == Sc(r.fromChain, r.toChain, r.token)
RecordsOf(s) == { k \in DOMAIN testResults : ScenarioOf(testResults[k]) = s }
LastResult == Last(testResults)
HasCall(op) == \E k \in DOMAIN calls : calls[k].op = op
ApprovePcs == {"allowance", "buildApprove", "sendApprove", "waitApprove"}
InScenario ==
  pc \in ApprovePcs \cup {"precheck", "balance", "routes", "fallback", "build",
                          "bridgeAsset", "log", "execute", "estimateGas", "send",
                          "wait", "record", "catch"}
IsApprovalStep(c) ==
  \/ c.op \in {"getAllowance", "buildApprove"}
  \/ c.op \in {"sendTransaction", "wait"} /\ c.arg = "approve"
IsSuccess(r) == r.status \in {"SUCCESS", "SUCCESS (DRY RUN)"}

\* C1 (state part): a scenario that is running has no record yet; once it has
\* returned it has exactly one record, the last one, and when an error reached
\* its catch block that record is FAILED with the error's message; exit code 1
\* is reached from initialization or from the report, never from inside a
\* scenario.
C1_Inv ==
  /\ pc = "exit1" =>
       \/ testResults = << >> /\ err = "init"
       \/ i > NumScenarios /\ err = "report"
  /\ InScenario => RecordsOf(scenario) = {}
  /\ pc = "pacing" =>
       /\ Cardinality(RecordsOf(scenario)) = 1
       /\ ScenarioOf(LastResult) = scenario
       /\ err # NoErr => LastResult.status = "FAILED" /\ LastResult.error = err

\* C1 (step part): the catch block returns to runAllTests, which moves on to
\* the next list entry and starts it (or skips it).
C1_Step ==
  /\ pc = "catch" => pc' = "pacing" /\ i' = i
  /\ pc = "pacing" => (pc' = "delay" /\ i' = i) \/ (pc' = "loop" /\ i' = i + 1)
  /\ pc = "delay" => pc' = "loop" /\ i' = i + 1
  /\ pc = "loop" /\ i <= NumScenarios =>
       \/ pc' = "precheck" /\ i' = i
       \/ pc' = "loop" /\ i' = i + 1

\* C1: an error raised inside a scenario ends that scenario only: exactly one
\* FAILED result is appended for it, the next scenario of the list is still
\* started, and the run is not terminated.
C1_ErrorEndsScenarioOnly == [](C1_Inv) /\ [][C1_Step]_vars

\* C1 witness: a scenario has failed and the next one has been started.
C1_Witness ==
  /\ pc = "precheck" /\ i > 1 /\ Len(testResults) > 0
  /\ LastResult.status = "FAILED"
  /\ ScenarioOf(LastResult) = testScenarios[i - 1]

NoSubmission == \A k \in DOMAIN calls : calls[k].op \notin {"sendTransaction", "wait"}

\* C2 as stated: under dry-run nothing is submitted, and every scenario that
\* obtains an unsigned transaction gets a synthetic hash and a
\* SUCCESS (DRY RUN) record.
C2_Original ==
  dryRun =>
    /\ NoSubmission
    /\ pc = "pacing" /\ unsignedTx # NoTx =>
         LastResult.status = "SUCCESS (DRY RUN)" /\ LastResult.txHash = "mock"

\* C2 amended: under dry-run nothing is submitted, and every scenario that
\* obtains an unsigned transaction carrying call data gets a synthetic hash
\* and a SUCCESS (DRY RUN) record.
C2_DryRunNoOp ==
  dryRun =>
    /\ NoSubmission
    /\ pc = "pacing" /\ unsignedTx # NoTx /\ unsignedTx.data =>
         LastResult.status = "SUCCESS (DRY RUN)" /\ LastResult.txHash = "mock"

\* C2 witness: a dry run went through an approval that found too small an
\* allowance and recorded SUCCESS (DRY RUN).
C2_Witness ==
  /\ dryRun /\ pc = "pacing"
  /\ \E k \in DOMAIN calls : calls[k].op = "getAllowance" /\ calls[k].res = "insufficient"
  /\ LastResult.status = "SUCCESS (DRY RUN)"

RoutesEmpty == \E k \in DOMAIN calls : calls[k].op = "getRoutes" /\ calls[k].res = "empty"
ApprovalFailed == \E k \in DOMAIN calls : IsApprovalStep(calls[k]) /\ calls[k].res = "throw"

\* C3: when the primary backend answered with an empty route list, the
\* scenario does not fail for lack of a route before the fallback backend
\* (buildBridgeAsset) has been attempted.
C3_FallbackAttempted ==
  pc = "catch" /\ RoutesEmpty /\ ~ApprovalFailed => HasCall("buildBridgeAsset")

\* the precondition of C4, read off the token table
SourceUnresolved(s) ==
  \/ ~tokens[s.token][s.from].present
  \/ ~tokens[s.token][s.to].present
  \/ ~tokens[s.token][s.from].isNative /\ tokens[s.token][s.from].address = NULL

CustomUndeployed(s) ==
  s.token = "CUSTOM_ERC20" /\ tokens["CUSTOM_ERC20"]["katana"].address = NULL

\* C4 as stated: a scenario whose source token is unresolved makes no call on
\* any collaborator and is recorded FAILED, never anything else.
C4_Original ==
  \A k \in 1..NumScenarios :
    SourceUnresolved(testScenarios[k]) =>
      /\ k = i /\ (InScenario \/ pc = "pacing") => calls = << >>
      /\ \A n \in RecordsOf(testScenarios[k]) : testResults[n].status = "FAILED"
      /\ k < i => RecordsOf(testScenarios[k]) # {}

\* C4 amended: a scenario whose source token is unresolved makes no call on
\* any collaborator and is never recorded SUCCESS; it is recorded FAILED
\* unless runAllTests skips it because the custom token has no Katana
\* address, and only such a scenario is recorded SKIPPED.
C4_UnresolvedRejected ==
  \A k \in 1..NumScenarios :
    SourceUnresolved(testScenarios[k]) =>
      /\ k = i /\ (InScenario \/ pc = "pacing") =>
           calls = << >> /\ pc \in {"precheck", "catch", "pacing"}
      /\ \A n \in RecordsOf(testScenarios[k]) :
           \/ testResults[n].status = "FAILED"
           \/ testResults[n].status = "SKIPPED" /\ CustomUndeployed(testScenarios[k])
      /\ k < i /\ ~CustomUndeployed(testScenarios[k]) =>
           \E n \in RecordsOf(testScenarios[k]) : testResults[n].status = "FAILED"

\* C4 witness: the pre-check has rejected an unresolved source token.
C4_Witness ==
  /\ pc = "pacing" /\ SourceUnresolved(scenario)
  /\ LastResult.status = "FAILED" /\ calls = << >>

\* C5: every scenario whose source descriptor is non-native and null at
\* process start is preceded in the list by a scenario that bridges the same
\* token into that source chain.
C5_SequencingInvariant ==
  pc = "init" =>
    \A k \in DOMAIN testScenarios :
      LET s == testScenarios[k] IN
        (tokens[s.token][s.from].present /\ ~tokens[s.token][s.from].isNative
           /\ tokens[s.token][s.from].address = NULL)
        => \E j \in 1..(k - 1) :
             testScenarios[j].token = s.token /\ testScenarios[j].to = s.from

\* C6: once a step of approveToken has failed, approveToken is not invoked
\* again in the scenario, no transfer is built or submitted, and the scenario
\* is recorded FAILED.
C6_ApprovalFailureFatal ==
  \A k \in DOMAIN calls :
    IsApprovalStep(calls[k]) /\ calls[k].res = "throw" =>
      /\ \A j \in (k + 1)..Len(calls) :
           calls[j].op \notin {"approveToken", "getUnsignedTransaction",
                               "buildBridgeAsset", "sendTransaction"}
      /\ pc = "pacing" => LastResult.status = "FAILED"

\* C7: after runAllTests has returned, testResults holds exactly one record
\* per scenario, in list order, and each skipped scenario has a SKIPPED
\* record with its reason.
C7_OneRecordPerScenario ==
  pc \in {"report", "exit0"} =>
    /\ Len(testResults) = NumScenarios
    /\ \A k \in DOMAIN testResults :
         /\ k <= NumScenarios => ScenarioOf(testResults[k]) = testScenarios[k]
         /\ k <= NumScenarios /\ CustomUndeployed(testScenarios[k]) =>
              testResults[k].status = "SKIPPED" /\ testResults[k].reason # NONE

\* a collaborator call raised an error in this step, or answered with the
\* empty route list for which the script raises one itself
ThrowStep ==
  /\ Len(calls') = Len(calls) + 1
  /\ Last(calls').res \in {"throw", "empty"}

InPrimaryAttempt ==
  \/ pc \in {"routes", "build"}
  \/ pc \in ApprovePcs /\ ret = "primary"

C9_ApprovalShortCircuit ==
  \A k \in DOMAIN calls :
    calls[k].op = "getAllowance" /\ calls[k].res = "sufficient" =>
      /\ k < Len(calls) => ~IsApprovalStep(calls[k + 1])
      /\ k = Len(calls) => pc \in {"build", "bridgeAsset"}

\* C9 witness: in a live run approveToken returned on a sufficient allowance
\* and the transfer was then confirmed.
C9_Witness ==
  /\ ~dryRun /\ pc = "pacing" /\ LastResult.status = "SUCCESS"
  /\ \E k \in DOMAIN calls : calls[k].op = "getAllowance" /\ calls[k].res = "sufficient"

Builders == {"getUnsignedTransaction", "buildBridgeAsset"}
BuiltBy(op) == \E k \in DOMAIN calls : calls[k].op = op /\ calls[k].res \in {"ok", "malformed"}

\* C10: a successful result records the routing method used: Native Bridge
\* exactly when the transaction came from buildBridgeAsset, Core API exactly
\* when it came from getUnsignedTransaction.
C10_MethodRecorded ==
  pc = "pacing" /\ IsSuccess(LastResult) =>
    /\ LastResult.method = "Native Bridge" <=> BuiltBy("buildBridgeAsset")
    /\ LastResult.method = "Core API" <=> BuiltBy("getUnsignedTransaction")

IsSubmit(c) == c.op = "sendTransaction" /\ c.res = "ok"
WaitPcs == {"waitApprove", "wait"}

\* C11: at most one submitted transaction is unconfirmed at any time: a
\* submission that returned a response is followed at once by the wait on
\* that same transaction, and nothing else is called in between; outside a
\* wait nothing is in flight.
C11_OneInFlight ==
  /\ \A k \in DOMAIN calls :
       IsSubmit(calls[k]) =>
         IF k = Len(calls)
         THEN pc = (IF calls[k].arg = "approve" THEN "waitApprove" ELSE "wait")
         ELSE calls[k + 1].op = "wait" /\ calls[k + 1].arg = calls[k].arg
  /\ pc \in WaitPcs => Len(calls) > 0 /\ IsSubmit(Last(calls))

\* C11 witness: the approval was confirmed before the transfer was submitted,
\* and the transfer is now the one transaction in flight.
C11_Witness ==
  /\ pc = "wait"
  /\ \E k \in DOMAIN calls :
       /\ calls[k].op = "wait" /\ calls[k].arg = "approve" /\ calls[k].res = "ok"
       /\ k < Len(calls)

\* a scenario of the list is finished: it has a record with a terminal
\* status, or the loop skipped it
Terminal(k) ==
  \/ \E n \in RecordsOf(testScenarios[k]) :
       testResults[n].status \in {"SUCCESS", "SUCCESS (DRY RUN)", "FAILED", "SKIPPED"}
  \/ CustomUndeployed(testScenarios[k])

\* C12 (state part): while scenario i is running, or the loop is about to
\* start it, every earlier scenario is finished and no later one has left a trace.
C12_Inv ==
  (InScenario \/ pc \in {"loop", "pacing", "delay"}) =>
    /\ \A k \in 1..(i - 1) : k <= NumScenarios => Terminal(k)
    /\ \A k \in (i + 1)..NumScenarios : RecordsOf(testScenarios[k]) = {}

\* C12 (step part): a call on a collaborator belongs to the scenario under the
\* loop index; while a confirmation wait is outstanding the index stays and
\* nothing but the return of that wait moves control.
C12_Step ==
  /\ calls' # calls /\ calls' # << >> => i' = i /\ InScenario
  /\ pc = "waitApprove" => i' = i /\ pc' \in {"build", "bridgeAsset", "fallback", "catch"}
  /\ pc = "wait" => i' = i /\ pc' \in {"record", "catch"}

\* C12: scenarios run strictly one after the other: scenario i+1 performs no
\* operation before scenario i is finished, and a confirmation wait that has
\* not returned keeps every later scenario from starting.
C12_StrictlySequential == [](C12_Inv) /\ [][C12_Step]_vars

\* C12 witness: a later scenario waits for a confirmation, the one before it
\* is finished.
C12_Witness ==
  /\ pc = "wait" /\ i > 1 /\ Terminal(i - 1) /\ Len(testResults) > 0

TransferSubmissions ==
  { k \in DOMAIN calls : calls[k].op = "sendTransaction" /\ calls[k].arg = "transfer" }
TransferFailure(k) ==
  /\ calls[k].op \in {"sendTransaction", "wait"}
  /\ calls[k].arg = "transfer" /\ calls[k].res = "throw"

\* C13: a scenario submits at most one transfer; when the submission or the
\* wait fails nothing is called after it, and the scenario is recorded FAILED
\* with the message of that error.
C13_NoRetry ==
  /\ Cardinality(TransferSubmissions) <= 1
  /\ \A k \in DOMAIN calls :
       TransferFailure(k) =>
         /\ k = Len(calls)
         /\ pc \in {"catch", "pacing", "delay", "loop", "report", "exit0", "exit1"}
         /\ LET msg == IF calls[k].op = "wait" THEN "confirmation failed"
                       ELSE "submission failed"
            IN IF pc = "catch" THEN err = msg
               ELSE LastResult.status = "FAILED" /\ LastResult.error = msg

\* C13 witness: a confirmation wait failed and the scenario was recorded FAILED.
C13_Witness ==
  /\ pc = "pacing" /\ Len(calls) > 0
  /\ Last(calls).op = "wait" /\ TransferFailure(Len(calls))
  /\ LastResult.status = "FAILED"

EstimateAnswered(res) ==
  \E k \in DOMAIN calls : calls[k].op = "estimateGas" /\ calls[k].res = res

\* C14: in live mode the gas limit the transfer goes on with is the one the
\* unsigned transaction carries; without one it is the chain's estimate, and
\* 800000 when the estimation failed; a failed estimation is followed by the
\* submission, never by the end of the scenario.
C14_GasResolution ==
  /\ pc = "send" =>
       gasLimit = (IF unsignedTx.gasLimit # 0 THEN unsignedTx.gasLimit
                   ELSE IF EstimateAnswered("ok") THEN Estimated
                   ELSE 800000)
  /\ pc = "send" /\ unsignedTx.gasLimit = 0 => HasCall("estimateGas")
  /\ \A k \in DOMAIN calls :
       calls[k].op = "estimateGas" /\ calls[k].res = "throw" =>
         IF k = Len(calls) THEN pc = "send"
         ELSE calls[k + 1].op = "sendTransaction"

\* C15: the gas limit submitted with a transfer is the resolved limit g times
\* the multiplier: floor(g * floor(m * 100) / 100); for the default
\* multiplier that is floor(g * 120 / 100), never below g.
C15_GasMultiplier ==
  [][pc = "send" =>
       /\ txRequest'.gasLimit = (gasLimit * gasMultiplier) \div 100
       /\ gasMultiplier = 120 =>
            /\ txRequest'.gasLimit = (gasLimit * 120) \div 100
            /\ txRequest'.gasLimit >= gasLimit]_vars

\* C15 witness: an estimated limit of 55774 went out as floor(55774 * 1.2).
C15_Witness ==
  /\ pc = "wait" /\ gasMultiplier = 120 /\ EstimateAnswered("ok")
  /\ txRequest.gasLimit = 66928

\* C16: the object handed to the signer, for an approval or a transfer, never
\* carries `gas`; a `gas` that buildApprove returned without `gasLimit` goes
\* out under `gasLimit`.
C16_NoGasField ==
  /\ txRequest.gas <= 0
  /\ pc = "waitApprove" /\ approveTx.gas > 0 /\ approveTx.gasLimit = 0 =>
       txRequest.gasLimit = approveTx.gas

\* C17: the object handed to the signer, for an approval or a transfer, never
\* carries a decimal-string nonce: a decimal nonce that buildApprove returned
\* goes out hex-encoded, a hex nonce unchanged.
C17_NoDecimalNonce ==
  /\ txRequest.nonce # "dec"
  /\ pc = "waitApprove" /\ approveTx.nonce # "absent" => txRequest.nonce = "hex"

TransferSubmitted == TransferSubmissions # {}

\* C18: an unsigned transaction without `to` or without `data` is never
\* submitted and, in live mode, its scenario ends FAILED; a transaction with
\* both is never turned down by the script itself: its scenario fails only on
\* an error raised by a collaborator.
C18_MalformedRejected ==
  /\ TransferSubmitted => WellFormed(unsignedTx)
  /\ pc = "pacing" /\ ~dryRun /\ unsignedTx # NoTx /\ ~WellFormed(unsignedTx) =>
       LastResult.status = "FAILED"
  /\ pc = "catch" /\ WellFormed(unsignedTx) =>
       Len(calls) > 0 /\ Last(calls).res = "throw"

\* a canonical transaction: `to` and `data`, no `gas` key, no decimal nonce
Canonical(tx) == WellFormed(tx) /\ tx.gas = 0 /\ tx.nonce # "dec"

\* C19: what the script does to a transaction on its way to the signer leaves
\* a canonical transaction as it is.
C19_NormalizeIdempotent ==
  /\ pc = "sendApprove" /\ Canonical(approveTx) => ApproveRequest(approveTx) = approveTx
  /\ pc = "send" /\ Canonical(unsignedTx) =>
       TransferRequest(unsignedTx, unsignedTx.gasLimit) = unsignedTx

ClaimCallsOf(h, op) ==
  { k \in DOMAIN claimCalls : claimCalls[k].txHash = h /\ claimCalls[k].op = op }
ClaimFailedCall(h) ==
  \E k \in DOMAIN claimCalls :
    claimCalls[k].txHash = h /\ claimCalls[k].res \in {"missing", "malformed", "throw"}
ClaimConfirmed(h) ==
  \E k \in ClaimCallsOf(h, "wait") : claimCalls[k].res = "ok"

\* C20: claims are processed in isolation: no step of a claim is run twice,
\* the outcomes recorded so far are those of the first claims of the list,
\* one each and in order, each decided by that claim's own calls; and once
\* processClaims is done every claim of the list has its outcome and has
\* left the pending set.
C20_ClaimIsolation ==
  /\ \A n \in DOMAIN claims :
       \A op \in {"getTransactions", "getClaimUnsignedTransaction", "sendTransaction", "wait"} :
         Cardinality(ClaimCallsOf(claims[n].txHash, op)) <= 1
  /\ Len(claimResults) <= Len(claims)
  /\ \A n \in DOMAIN claimResults :
       /\ claimResults[n].txHash = claims[n].txHash
       /\ claimResults[n].status = "SUCCESS" <=> ClaimConfirmed(claims[n].txHash)
       /\ claimResults[n].status = "FAILED" <=> ClaimFailedCall(claims[n].txHash)
       /\ claimResults[n].status = "FAILED" <=> claimResults[n].error # NoErr
  /\ cpc = "done" => Len(claimResults) = Len(claims) /\ pendingClaims = << >>

\* C20 witness: of three pending claims the second failed on its unresolved
\* deposit identifier, the first and the third were claimed.
C20_Witness ==
  /\ cpc = "done" /\ Len(claims) = 3
  /\ claimResults[1].status = "SUCCESS"
  /\ claimResults[2].error = "DepositNotIndexedError"
  /\ claimResults[3].status = "SUCCESS"

LiveSuccesses == { k \in DOMAIN testResults : testResults[k].status = "SUCCESS" }

\* C21: the pending set holds exactly one PendingClaim per transfer that was
\* submitted live and confirmed: a scenario recorded SUCCESS adds one, a
\* dry-run, FAILED or SKIPPED scenario adds none.
C21_RegisteredOnConfirm ==
  pc # "record" => Len(pendingClaims) = Cardinality(LiveSuccesses)

FailedRecords == { k \in DOMAIN testResults : testResults[k].status = "FAILED" }

\* C23 (state part): the process has ended with code 1 exactly when
\* initialization or the report raised an error; it ends with code 0 only
\* after the whole list was iterated.
C23_Inv ==
  /\ pc = "exit1" <=> err \in {"init", "report"}
  /\ pc = "exit0" => i > NumScenarios

\* C23 (step part): code 1 is reached from initialization or from the report
\* only, code 0 from the report only; a scenario's catch block returns to the
\* loop, and the loop always ends in the report.
C23_Step ==
  /\ pc' = "exit1" /\ pc # "exit1" => pc \in {"init", "report"}
  /\ pc' = "exit0" /\ pc # "exit0" => pc = "report"
  /\ pc = "catch" => pc' = "pacing"
  /\ pc = "loop" /\ i > NumScenarios => pc' = "report"

C24_Original ==
  [][/\ i' = i + 1 /\ i < NumScenarios => pc = "delay"
     /\ pc' = "delay" => i < NumScenarios]_vars

\* C24 amended: the loop index moves from a scenario that was run (SUCCESS or
\* FAILED) and is not the last one only through the delay; a skipped scenario
\* is followed by no delay, and the delay never follows the last scenario.
C24_PacingDelay ==
  [][/\ i' = i + 1 /\ i < NumScenarios /\ pc # "loop" => pc = "delay"
     /\ i' = i + 1 /\ pc = "loop" => SkipTest(tokens, scenario) /\ pc' = "loop"
     /\ pc' = "delay" => i < NumScenarios /\ pc \in {"pacing", "delay"}]_vars

\* C24 witness: the delay runs after a FAILED scenario.
C24_Witness ==
  pc = "delay" /\ Len(testResults) > 0 /\ LastResult.status = "FAILED"

\* C25: a native descriptor holds the zero address; a non-native descriptor
\* holds null or a contract address other than the zero address.
C25_DescriptorInvariant ==
  \A sym \in Symbols, ch \in ChainNames :
    tokens[sym][ch].present =>
      /\ tokens[sym][ch].isNative => tokens[sym][ch].address = ZERO
      /\ ~tokens[sym][ch].isNative =>
           tokens[sym][ch].address = NULL \/ tokens[sym][ch].address \notin {ZERO, NONE}

ApprovalsConfirmed ==
  { k \in DOMAIN calls :
      calls[k].op = "wait" /\ calls[k].arg = "approve" /\ calls[k].res = "ok" }

\* C26: a scenario's steps only move forward: the route query precedes every
\* approval step, every approval step precedes the submission of the
\* transfer, at most one approval is confirmed, and once an approval step has
\* been taken (and none has failed) routing is not entered again.
C26_ForwardOnly ==
  /\ Cardinality(ApprovalsConfirmed) <= 1
  /\ pc \in {"routes", "fallback"} /\ ~ApprovalFailed =>
       \A k \in DOMAIN calls : ~IsApprovalStep(calls[k])
  /\ \A j, k \in DOMAIN calls :
       /\ calls[j].op = "getRoutes" /\ IsApprovalStep(calls[k]) => j < k
       /\ IsApprovalStep(calls[j]) /\ calls[k].op = "sendTransaction"
            /\ calls[k].arg = "transfer" => j < k

PrimaryBuilt ==
  \E k \in DOMAIN calls : calls[k].op = "getUnsignedTransaction" /\ calls[k].res = "ok"

\* C27 (state part): once the primary path has built the transfer, the
\* fallback is not entered and buildBridgeAsset not called, the method is the
\* primary one, and what is submitted is that transaction.
C27_Inv ==
  PrimaryBuilt =>
    /\ ~HasCall("buildBridgeAsset")
    /\ pc \notin {"fallback", "bridgeAsset"}
    /\ copy = 1 => bridgeMethod = "Core API"
    /\ unsignedTx # NoTx
    /\ pc = "wait" => txRequest.to = unsignedTx.to /\ txRequest.data = unsignedTx.data

\* C27 (step part): the transaction the primary path has built is not
\* replaced for the rest of the scenario.
C27_Step ==
  PrimaryBuilt /\ PrimaryBuilt' => unsignedTx' = unsignedTx

\* C27: when getRoutes answered with routes and approval and build succeeded
\* on the primary path, buildBridgeAsset is never called, the transaction
\* executed is the one built from the route, and a failure of the execution
\* does not start the fallback.
C27_PrimaryNoFallback == [](C27_Inv) /\ [][C27_Step]_vars

\* C27 witness: the first copy built the transfer on the primary path, its
\* confirmation failed, and the scenario was recorded FAILED.
C27_Witness ==
  /\ copy = 1 /\ pc = "pacing" /\ PrimaryBuilt
  /\ TransferFailure(Len(calls)) /\ Last(calls).op = "wait"
  /\ LastResult.status = "FAILED"

CallsOf(op) == { k \in DOMAIN calls : calls[k].op = op }
FallbackFailed(k) ==
  \/ calls[k].op = "buildBridgeAsset" /\ calls[k].res = "throw"
  \/ /\ IsApprovalStep(calls[k]) /\ calls[k].res = "throw"
     /\ \E j \in 1..(k - 1) : calls[j].op = "approveToken" /\ calls[j].res = "fallback"

\* C28: a scenario calls each of getRoutes and buildBridgeAsset at most once;
\* when the fallback path fails nothing is called after it, no transfer has
\* been submitted, and the scenario is recorded FAILED.
C28_FallbackTerminal ==
  /\ Cardinality(CallsOf("getRoutes")) <= 1
  /\ Cardinality(CallsOf("buildBridgeAsset")) <= 1
  /\ \A k \in DOMAIN calls :
       FallbackFailed(k) =>
         /\ k = Len(calls)
         /\ ~TransferSubmitted
         /\ pc \in {"catch", "pacing", "delay", "loop", "report", "exit0", "exit1"}
         /\ pc # "catch" => LastResult.status = "FAILED"

\* C28 witness: the primary backend had no route, buildBridgeAsset failed
\* too, and the scenario was recorded FAILED.
C28_Witness ==
  /\ pc = "pacing" /\ RoutesEmpty
  /\ Len(calls) > 0 /\ Last(calls).op = "buildBridgeAsset" /\ Last(calls).res = "throw"
  /\ LastResult.status = "FAILED"

TransferBuilt(k) == calls[k].op \in {"getUnsignedTransaction", "buildBridgeAsset"}

\* C29: the approval step is run exactly when the source descriptor is
\* non-native: a native source makes no approval call at all, and for a
\* non-native source the allowance is queried before the transfer is built,
\* on either path.
C29_ApprovalIffNonNative ==
  InScenario \/ pc = "pacing" =>
    /\ fromDesc.isNative =>
         \A k \in DOMAIN calls : calls[k].op # "approveToken" /\ ~IsApprovalStep(calls[k])
    /\ ~fromDesc.isNative =>
         \A k \in DOMAIN calls :
           TransferBuilt(k) => \E j \in 1..(k - 1) : calls[j].op = "getAllowance"

\* the approval address a route names in its metadata
RouteSpender == "0xRouteSpender"

\* C30: the spender of an approval on the primary path is the approval
\* address the route names, and the chain's bridge address only when the
\* route names none.
C30_SpenderFromRoute ==
  \A k \in DOMAIN calls :
    calls[k].op = "approveToken" /\ calls[k].res = "primary" =>
      \E j \in 1..(k - 1) :
        /\ calls[j].op = "getRoutes"
        /\ calls[k].arg = (IF calls[j].res = "routesApproval" THEN RouteSpender
                           ELSE bridgeAddress(copy, scenario.from))

AfterScenario == pc \in {"pacing", "delay"}

\* C31: the destination token address sent to the primary backend is the
\* destination descriptor's address when it is resolved and the zero address
\* otherwise, never null; the pre-check rejects a scenario only for a missing
\* descriptor or an unresolved source, never for an unresolved destination.
C31_DestinationAddress ==
  /\ InScenario \/ AfterScenario =>
       \A k \in DOMAIN calls :
         calls[k].op = "getRoutes" =>
           /\ calls[k].arg = (IF toDesc.address \in {NULL, NONE} THEN ZERO
                              ELSE toDesc.address)
           /\ calls[k].arg \notin {NULL, NONE}
  /\ pc = "catch" /\ calls = << >> =>
       \/ ~fromDesc.present \/ ~toDesc.present
       \/ ~fromDesc.isNative /\ fromDesc.address = NULL

\* C31 witness: routes were asked with the zero address for a non-native
\* destination whose address is still null.
C31_Witness ==
  /\ InScenario /\ toDesc.present /\ ~toDesc.isNative /\ toDesc.address = NULL
  /\ \E k \in DOMAIN calls : calls[k].op = "getRoutes" /\ calls[k].arg = ZERO

HasStatus(s, status) ==
  \E n \in RecordsOf(s) : testResults[n].status = status

\* C32: a finished scenario is recorded SKIPPED exactly when its token is the
\* custom ERC20 without a Katana address, and then it has made no call; any
\* other scenario whose source token is unresolved is recorded FAILED.
C32_SkippedIff ==
  \A k \in 1..NumScenarios :
    k < i =>
      /\ CustomUndeployed(testScenarios[k]) <=> HasStatus(testScenarios[k], "SKIPPED")
      /\ CustomUndeployed(testScenarios[k]) /\ k = i - 1 /\ pc = "loop" => calls = << >>
      /\ SourceUnresolved(testScenarios[k]) /\ ~CustomUndeployed(testScenarios[k]) =>
           HasStatus(testScenarios[k], "FAILED")

ResolvePcs == {"resolve1", "resolve2", "resolve3", "resolve4", "resolve5"}

\* C33: the token table changes in the wrapped-token resolution only, and
\* there only by putting an address where null was: no address is
\* overwritten, no isNative flag changed; once the scenarios run the table,
\* and with it every scenario's pre-check and skip test, stays as it is.
C33_TokenTableFrame ==
  [][/\ tokens' # tokens => pc \in ResolvePcs
     /\ \A sym \in Symbols, ch \in ChainNames :
          tokens'[sym][ch] # tokens[sym][ch] =>
            /\ tokens[sym][ch].address = NULL
            /\ Truthy(tokens'[sym][ch].address)
            /\ tokens'[sym][ch] =
                 [tokens[sym][ch] EXCEPT !.address = tokens'[sym][ch].address]
     /\ pc \notin ResolvePcs \cup {"init"} =>
          \A k \in 1..NumScenarios :
            /\ ValidateToken(tokens', testScenarios[k]) = ValidateToken(tokens, testScenarios[k])
            /\ SkipTest(tokens', testScenarios[k]) = SkipTest(tokens, testScenarios[k])]_vars

\* C33 witness: the resolution found the wrapped WBTC on Katana and a
\* scenario has run since.
C33_Witness ==
  /\ copy = 2 /\ pc = "pacing"
  /\ tokens["WBTC"]["katana"].address = WRAPPED

\* the message of the error a failed call raises
MessageOf(c) ==
  CASE c.op = "getBalance" -> "getBalance failed"
    [] c.op = "getRoutes" -> "getRoutes failed"
    [] c.op = "getAllowance" -> "getAllowance failed"
    [] c.op = "buildApprove" -> "buildApprove failed"
    [] c.op = "getUnsignedTransaction" -> "getUnsignedTransaction failed"
    [] c.op = "buildBridgeAsset" -> "buildBridgeAsset failed"
    [] c.op = "sendTransaction" /\ c.arg = "approve" -> "approve submission failed"
    [] c.op = "wait" /\ c.arg = "approve" -> "approve confirmation failed"
    [] c.op = "sendTransaction" -> "submission failed"
    [] c.op = "wait" -> "confirmation failed"
    [] OTHER -> NONE

\* call k was made inside copy 1's primary attempt, whose errors start the fallback
FallbackTrigger(k) ==
  /\ copy = 1
  /\ \/ calls[k].op \in {"getRoutes", "getUnsignedTransaction"}
     \/ /\ IsApprovalStep(calls[k])
        /\ \A j \in 1..(k - 1) :
             ~(calls[j].op = "approveToken" /\ calls[j].res = "fallback")

\* C34: every error a call raised during a scenario, other than the trigger
\* of the fallback (and the failed gas estimation, which has its documented
\* default), is the error the scenario is recorded FAILED with.
C34_NoSwallowedError ==
  AfterScenario =>
    \A k \in DOMAIN calls :
      calls[k].res = "throw" /\ ~FallbackTrigger(k) /\ calls[k].op # "estimateGas" =>
        LastResult.status = "FAILED" /\ LastResult.error = MessageOf(calls[k])

ConfirmedLast ==
  /\ Len(calls) >= 2
  /\ calls[Len(calls) - 1] = Call("sendTransaction", "transfer", "ok")
  /\ Last(calls) = Call("wait", "transfer", "ok")

\* C35: a SUCCESS record exists in live mode only, is appended only after the
\* transfer was submitted and its confirmation wait returned, and carries the
\* hash of the submitted transaction and the block number and gas used of its
\* receipt.
C35_SuccessAfterConfirmation ==
  /\ \A k \in DOMAIN testResults :
       testResults[k].status = "SUCCESS" =>
         /\ ~dryRun
         /\ testResults[k].txHash = "0xTX"
         /\ testResults[k].blockNumber = "receipt.blockNumber"
         /\ testResults[k].gasUsed = "receipt.gasUsed"
  /\ pc = "record" /\ ~dryRun => ConfirmedLast
  /\ AfterScenario /\ LastResult.status = "SUCCESS" => ConfirmedLast

\* C35 witness: a live scenario has been recorded SUCCESS.
C35_Witness ==
  /\ ~dryRun /\ pc = "pacing" /\ LastResult.status = "SUCCESS"
  /\ LastResult.txHash = "0xTX" /\ ConfirmedLast

AllTerminal == \A k \in 1..NumScenarios : Terminal(k)

\* C36: under the fairness assumption every run that got through
\* initialization ends: every scenario of the list reaches a terminal state
\* and after that the report is generated and the process exits.
C36_Termination ==
  /\ [](pc \in {"report", "exit0"} => AllTerminal)
  /\ (pc = "loop" /\ i = 1) ~> (pc = "report" /\ AllTerminal)
  /\ (pc = "report") ~> (pc \in {"exit0", "exit1"})

\* C36 witness: a run has ended after a scenario of each kind: one confirmed
\* live, one failed, and the report was written.
C36_Witness ==
  /\ pc = "exit0" /\ AllTerminal /\ ~dryRun
  /\ LiveSuccesses # {} /\ FailedRecords # {}

\* C37: a balance below the amount, or a failed balance query, ends the
\* scenario FAILED before any other call is made; with SKIP_BALANCE_CHECK set
\* no balance query is made.
C37_BalanceGate ==
  /\ \A k \in DOMAIN calls :
       calls[k].op = "getBalance" /\ calls[k].res \in {"insufficient", "throw"} =>
         /\ Len(calls) = 1
         /\ pc \in {"catch", "pacing", "delay", "loop", "report", "exit0", "exit1"}
         /\ pc # "catch" => LastResult.status = "FAILED"
  /\ skipBalanceCheck => ~HasCall("getBalance")

\* C38: no approval call and no buildBridgeAsset call is made with a null
\* bridge address.
C38_BridgeAddressNonNull ==
  \A k \in DOMAIN calls :
    calls[k].op \in {"approveToken", "getAllowance", "buildApprove", "buildBridgeAsset"} =>
      calls[k].arg \notin {NULL, NONE}

Statuses == {"SUCCESS", "SUCCESS (DRY RUN)", "FAILED", "SKIPPED"}

\* C39: every record's status is one of the four, and in the summary of a
\* report successful + failed + skipped is the total, the number of records.
C39_ReportPartition ==
  /\ \A k \in DOMAIN testResults : testResults[k].status \in Statuses
  /\ report # NoReport =>
       /\ report.total = Len(testResults)
       /\ report.successful >= 0 /\ report.failed >= 0 /\ report.skipped >= 0
       /\ report.successful + report.failed + report.skipped = report.total

\* C39 witness: a report of a dry run was written with successful, failed
\* and skipped scenarios.
C39_Witness ==
  /\ pc = "exit0" /\ dryRun
  /\ report.successful > 0 /\ report.failed > 0 /\ report.skipped > 0

====
